---- MODULE Spec2Model ----
(***************************************************************************)
(* Whale Curve Analyzer (src/whale_curve_analyzer.py): one run of the      *)
(* script over a pair of uploaded workbooks.                               *)
(*                                                                         *)
(* Identifiers (Customer ID, Product ID, Salesperson, Region) are modelled *)
(* by their rank in ascending order, so that the key order pandas' groupby *)
(* produces is the order of the integers.  Money amounts are integers.     *)
(* A cell of the cost workbook is <<>> when it is empty (NaN after         *)
(* read_excel) and <<v>> when it holds v.  A float computed by a division  *)
(* is the record [kind, num, den]: the exact quotient, or the IEEE value   *)
(* (nan, inf, -inf) a zero denominator gives.                              *)
(***************************************************************************)
EXTENDS Integers, Sequences, FiniteSets, TLC

VARIABLES
    sales_file,     \* the upload of the first file_uploader (line 73)
    cost_file,      \* the upload of the second file_uploader (line 75)
    top_n,          \* the top_n argument of get_top_bottom (default 20)
    pc,             \* the script's position
    sales_data,     \* result of load_sales_data
    cost_data,      \* result of load_cost_data
    errors,         \* st.error messages shown, in order
    infos,          \* st.info / st.warning messages of the run guard
    exception,      \* the uncaught exception that ended the run, "" if none
    merged_data,    \* result of merge_data
    view,           \* index of the loop over the four views (lines 177-182)
    summary,        \* result of generate_summary for the current view
    top_sales,      \* line 198
    top_margin,     \* line 199
    bottom_margin,  \* line 199
    calls           \* the functions called so far, in order

vars == <<sales_file, cost_file, top_n, pc, sales_data, cost_data, errors, infos,
          exception, merged_data, view, summary, top_sales, top_margin,
          bottom_margin, calls>>

-----------------------------------------------------------------------------
(* Bounds of the explored inputs. *)

MaxSalesRows == 3
MaxCostRows == 2
MaxMergeSalesRows == 1
MaxRunRows == 1
MaxRankRows == 3
MaxTopN == 2

(* Program constants. *)

DefaultTopN == 20
RowWarnLimit == 10000

-----------------------------------------------------------------------------
(* Column names. *)

SalesRequiredCols == {"Customer ID", "Product ID", "Net Sales $", "Salesperson", "Region"}

CostRequiredCols == {"Product ID"}

CostFields == {"Standard Total Cost", "Material Cost", "Labor Cost", "Overhead Cost",
               "Service Cost"}

ViewNames == <<"Customer", "Product", "Salesperson", "Region">>

GroupFields == <<"Customer ID", "Product ID", "Salesperson", "Region">>

-----------------------------------------------------------------------------
(* Generic helpers. *)

SeqsUpTo(S, n) == UNION {[1..k -> S] : k \in 0..n}

Min(a, b) == IF a <= b THEN a ELSE b

Project(r, cols) == [c \in cols |-> r[c]]

RECURSIVE SumSeq(_)
SumSeq(s) == IF s = <<>> THEN 0 ELSE s[1] + SumSeq(Tail(s))

Column(rows, c) == [i \in 1..Len(rows) |-> rows[i][c]]

RECURSIVE Flatten(_)
Flatten(ss) == IF ss = <<>> THEN <<>> ELSE ss[1] \o Flatten(Tail(ss))

-----------------------------------------------------------------------------
(* Cells and data frames. *)

NaN == <<>>

Val(v) == <<v>>

NoFrame == [none |-> TRUE, columns |-> {}, rows |-> <<>>]

DataFrame(cols, rows) == [none |-> FALSE, columns |-> cols, rows |-> rows]

NoFile == [uploaded |-> FALSE, readable |-> FALSE, columns |-> {}, rows |-> <<>>]

BadFile == [uploaded |-> TRUE, readable |-> FALSE, columns |-> {}, rows |-> <<>>]

Workbook(cols, rows) ==
    [uploaded |-> TRUE, readable |-> TRUE, columns |-> cols,
     rows |-> [i \in 1..Len(rows) |-> Project(rows[i], cols)]]

-----------------------------------------------------------------------------
(* load_sales_data / load_cost_data: the frame and the error reported. *)

MissingAny(required, columns) == ~(required \subseteq columns)

load_sales_data(uploaded_file) ==
    IF ~uploaded_file.readable
    THEN [frame |-> NoFrame, error |-> <<"Error reading Sales file">>]
    ELSE IF MissingAny(SalesRequiredCols, uploaded_file.columns)
    THEN [frame |-> NoFrame, error |-> <<"Missing required columns in Sales Data">>]
    ELSE [frame |-> DataFrame(uploaded_file.columns, uploaded_file.rows), error |-> <<>>]

load_cost_data(uploaded_file) ==
    IF ~uploaded_file.readable
    THEN [frame |-> NoFrame, error |-> <<"Error reading Cost file">>]
    ELSE IF MissingAny(CostRequiredCols, uploaded_file.columns)
    THEN [frame |-> NoFrame, error |-> <<"Missing required columns in Cost Data">>]
    ELSE [frame |-> DataFrame(uploaded_file.columns, uploaded_file.rows), error |-> <<>>]

BothUploaded(sf, cf) == sf.uploaded /\ cf.uploaded

EitherLoaded(sd, cd) == ~sd.none \/ ~cd.none

BothLoaded(sd, cd) == ~sd.none /\ ~cd.none

RowWarnings(sd, cd) ==
    (IF Len(sd.rows) > RowWarnLimit THEN <<"Sales Data over 10,000 rows">> ELSE <<>>)
    \o (IF Len(cd.rows) > RowWarnLimit THEN <<"Cost Detail over 10,000 rows">> ELSE <<>>)

-----------------------------------------------------------------------------
(* merge_data. *)

CostMatches(s, cost) == SelectSeq(cost.rows, LAMBDA c : c["Product ID"] = s["Product ID"])

JoinRow(s, c, cost) ==
    [col \in (DOMAIN s) \cup (cost.columns \ {"Product ID"}) |->
        IF col \in DOMAIN s THEN s[col] ELSE c[col]]

UnmatchedRow(s, cost) ==
    [col \in (DOMAIN s) \cup (cost.columns \ {"Product ID"}) |->
        IF col \in DOMAIN s THEN s[col] ELSE NaN]

JoinedRowsOf(s, cost) ==
    LET m == CostMatches(s, cost)
    IN  IF m = <<>> THEN <<UnmatchedRow(s, cost)>>
        ELSE [j \in 1..Len(m) |-> JoinRow(s, m[j], cost)]

pd_merge_left(sales, cost) ==
    Flatten([i \in 1..Len(sales.rows) |-> JoinedRowsOf(sales.rows[i], cost)])

FillCell(col, cell) ==
    IF col \in CostFields THEN (IF cell = NaN THEN 0 ELSE cell[1]) ELSE cell

fillna(rows) ==
    [i \in 1..Len(rows) |-> [col \in DOMAIN rows[i] |-> FillCell(col, rows[i][col])]]

UsesStandardNonZero(std) == std /= 0

UsesStandard(std) == std > 0

UnitCostOf(r) ==
    IF UsesStandard(r["Standard Total Cost"])
    THEN r["Standard Total Cost"]
    ELSE r["Material Cost"] + r["Labor Cost"] + r["Overhead Cost"] + r["Service Cost"]

WithCost(r) ==
    LET uc == UnitCostOf(r)
    IN  [col \in (DOMAIN r) \cup {"Unit Cost", "Gross Margin $"} |->
            IF col = "Unit Cost" THEN uc
            ELSE IF col = "Gross Margin $" THEN r["Net Sales $"] - uc
            ELSE r[col]]

MergeRaises(sales, cost) ==
    \/ "Product ID" \notin sales.columns
    \/ "Product ID" \notin cost.columns
    \/ ~(CostFields \subseteq cost.columns)
    \/ "Net Sales $" \notin sales.columns

merge_data(sales, cost) ==
    IF MergeRaises(sales, cost)
    THEN [raised |-> "KeyError", rows |-> <<>>]
    ELSE LET filled == fillna(pd_merge_left(sales, cost))
         IN  [raised |-> "", rows |-> [i \in 1..Len(filled) |-> WithCost(filled[i])]]

-----------------------------------------------------------------------------
(* Floats produced by the divisions of generate_summary. *)

FNaN == [kind |-> "nan", num |-> 0, den |-> 1]

PosInf == [kind |-> "inf", num |-> 1, den |-> 1]

NegInf == [kind |-> "-inf", num |-> -1, den |-> 1]

Finite(n, d) ==
    IF d < 0 THEN [kind |-> "finite", num |-> -n, den |-> -d]
    ELSE [kind |-> "finite", num |-> n, den |-> d]

ToFloat(v) == Finite(v, 1)

FDiv(n, d) ==
    IF d = 0
    THEN (IF n = 0 THEN FNaN ELSE IF n > 0 THEN PosInf ELSE NegInf)
    ELSE Finite(n, d)

Pct(n, d) == FDiv(100 * n, d)

IsNaN(x) == x.kind = "nan"

IsFinite(x) == x.kind = "finite"

FRank(x) == IF x.kind = "-inf" THEN 0 ELSE IF x.kind = "finite" THEN 1 ELSE 2

(* x < y for floats that are not NaN *)
FLt(x, y) ==
    IF IsFinite(x) /\ IsFinite(y)
    THEN x.num * y.den < y.num * x.den
    ELSE FRank(x) < FRank(y)

FLe(x, y) == ~FLt(y, x)

FloatCols == {"% of Sales", "Cumulative Sales %", "Margin %", "Cumulative Profit %"}

KeyOf(row, field) == IF field \in FloatCols THEN row[field] ELSE ToFloat(row[field])

-----------------------------------------------------------------------------
(* DataFrame.sort_values(field, ascending) with the default kind="quicksort" *)
(* and na_position="last": the rows in key order, NaN keys last in their     *)
(* original order.  quicksort is not a stable sort, so rows with equal keys  *)
(* may come out in any relative order: the set of possible results.          *)

InOrder(x, y, ascending) == IF ascending THEN FLe(x, y) ELSE FLe(y, x)

IsSortOutcome(rows, field, ascending, p) ==
    \A i, j \in 1..Len(rows) :
        i < j =>
            LET x == KeyOf(rows[p[i]], field)
                y == KeyOf(rows[p[j]], field)
            IN  IF IsNaN(x) THEN IsNaN(y) /\ p[i] < p[j]
                ELSE IsNaN(y) \/ InOrder(x, y, ascending)

sort_values_unsorted(rows, field, ascending) == {rows}

sort_values(rows, field, ascending) ==
    { [i \in 1..Len(rows) |-> rows[p[i]]] :
        p \in {q \in Permutations(1..Len(rows)) : IsSortOutcome(rows, field, ascending, q)} }

head_off_by_one(rows, n) == SubSeq(rows, 1, Min(n + 1, Len(rows)))

head(rows, n) == SubSeq(rows, 1, Min(n, Len(rows)))

cumsum_none(s) == s

cumsum_exclusive(s) == [i \in 1..Len(s) |-> SumSeq(SubSeq(s, 1, i - 1))]

cumsum(s) == [i \in 1..Len(s) |-> SumSeq(SubSeq(s, 1, i))]

-----------------------------------------------------------------------------
(* generate_summary. *)

RECURSIVE Ascending(_)
Ascending(S) ==
    IF S = {} THEN <<>>
    ELSE LET m == CHOOSE x \in S : \A y \in S : x <= y
         IN  <<m>> \o Ascending(S \ {m})

GroupKeys(df, group_field) == {df[i][group_field] : i \in 1..Len(df)}

GroupRows(df, group_field, k) == SelectSeq(df, LAMBDA r : r[group_field] = k)

AggRowFirst(df, group_field, k) ==
    LET g == GroupRows(df, group_field, k)
    IN  [col \in {group_field, "Net Sales $", "Gross Margin $"} |->
            IF col = group_field THEN k
            ELSE g[1][col]]

AggRow(df, group_field, k) ==
    LET g == GroupRows(df, group_field, k)
    IN  [col \in {group_field, "Net Sales $", "Gross Margin $"} |->
            IF col = group_field THEN k
            ELSE SumSeq(Column(g, col))]

(* df.groupby(group_field).agg(sum): one row per key, keys ascending (sort=True) *)
groupby_agg(df, group_field) ==
    LET keys == Ascending(GroupKeys(df, group_field))
    IN  [i \in 1..Len(keys) |-> AggRow(df, group_field, keys[i])]

SummaryCols(group_field) ==
    {group_field, "Net Sales $", "Gross Margin $", "% of Sales", "Cumulative Sales $",
     "Cumulative Sales %", "Margin %", "Cumulative Margin $", "Cumulative Profit %"}

WithCurves(sorted, group_field, total_sales) ==
    LET cum_sales == cumsum(Column(sorted, "Net Sales $"))
        cum_margin == cumsum(Column(sorted, "Gross Margin $"))
        total_margin == SumSeq(Column(sorted, "Gross Margin $"))
    IN  [i \in 1..Len(sorted) |->
            [col \in SummaryCols(group_field) |->
                CASE col = "% of Sales" -> Pct(sorted[i]["Net Sales $"], total_sales)
                  [] col = "Cumulative Sales $" -> cum_sales[i]
                  [] col = "Cumulative Sales %" -> Pct(cum_sales[i], total_sales)
                  [] col = "Margin %" ->
                        Pct(sorted[i]["Gross Margin $"], sorted[i]["Net Sales $"])
                  [] col = "Cumulative Margin $" -> cum_margin[i]
                  [] col = "Cumulative Profit %" -> Pct(cum_margin[i], total_margin)
                  [] OTHER -> sorted[i][col]]]

(* the set of tables generate_summary may return *)
generate_summary(df, group_field) ==
    LET total_sales == SumSeq(Column(df, "Net Sales $"))
    IN  { WithCurves(s, group_field, total_sales) :
            s \in sort_values(groupby_agg(df, group_field), "Gross Margin $", FALSE) }

-----------------------------------------------------------------------------
(* get_top_bottom: the set of (top, bottom) pairs it may return. *)

get_top_bottom(table, field, n) ==
    { <<head(t, n), head(b, n)>> :
        t \in sort_values(table, field, FALSE), b \in sort_values(table, field, TRUE) }

-----------------------------------------------------------------------------
(* The workbooks explored. *)

SalesRow(c, p, ns, sp, rg) ==
    [col \in SalesRequiredCols |->
        CASE col = "Customer ID" -> c
          [] col = "Product ID" -> p
          [] col = "Net Sales $" -> ns
          [] col = "Salesperson" -> sp
          [] col = "Region" -> rg]

CostRow(p, std, mat, lab, ovh, svc) ==
    [col \in CostRequiredCols \cup CostFields |->
        CASE col = "Product ID" -> p
          [] col = "Standard Total Cost" -> std
          [] col = "Material Cost" -> mat
          [] col = "Labor Cost" -> lab
          [] col = "Overhead Cost" -> ovh
          [] col = "Service Cost" -> svc]

AllCostCols == CostRequiredCols \cup CostFields

StdOnly(p, std) == CostRow(p, Val(std), NaN, NaN, NaN, NaN)

(* column sets: complete, or lacking one column *)
SalesColumnSets == {SalesRequiredCols} \cup {SalesRequiredCols \ {c} : c \in SalesRequiredCols}

CostColumnSets == {AllCostCols} \cup {AllCostCols \ {c} : c \in AllCostCols}

(* cost workbooks that pass validation: Product ID and any set of cost fields *)
ValidCostColumnSets ==
    {AllCostCols, CostRequiredCols} \cup {AllCostCols \ {c} : c \in CostFields}

RunSalesRowSet == {SalesRow(c, p, 5, 1, 1) : c \in 1..2, p \in 1..2}

RunCostRowSet == {StdOnly(1, 3), CostRow(2, NaN, Val(1), Val(1), Val(1), Val(1))}

RunSalesFiles ==
    {NoFile, BadFile}
    \cup {Workbook(cols, rows) :
            cols \in SalesColumnSets, rows \in SeqsUpTo(RunSalesRowSet, MaxRunRows)}

RunCostFiles ==
    {NoFile, BadFile}
    \cup {Workbook(cols, rows) :
            cols \in CostColumnSets, rows \in SeqsUpTo(RunCostRowSet, MaxRunRows)}

MergeSalesRowSet == {SalesRow(1, p, 5, 1, 1) : p \in 1..2}

CostProfiles ==
    { <<NaN, Val(1), Val(2), Val(4), Val(8)>>,
      <<NaN, NaN, Val(2), NaN, NaN>>,
      <<Val(3), Val(1), NaN, Val(4), NaN>>,
      <<Val(0), NaN, Val(2), NaN, Val(8)>>,
      <<Val(-1), NaN, NaN, NaN, NaN>> }

MergeCostRowSet ==
    {CostRow(p, f[1], f[2], f[3], f[4], f[5]) : p \in 1..2, f \in CostProfiles}

MergeSalesFiles ==
    {Workbook(SalesRequiredCols, rows) :
        rows \in SeqsUpTo(MergeSalesRowSet, MaxMergeSalesRows)}

MergeCostFiles ==
    {Workbook(cols, rows) :
        cols \in ValidCostColumnSets, rows \in SeqsUpTo(MergeCostRowSet, MaxCostRows)}

(* three customers buying two products *)
SummaryPairs == {<<1, 1>>, <<2, 1>>, <<3, 2>>}

SummarySalesRowSet ==
    {SalesRow(cp[1], cp[2], ns, 1, 1) : cp \in SummaryPairs, ns \in {-1, 0, 2}}

SummarySalesFiles ==
    {Workbook(SalesRequiredCols, rows) :
        rows \in SeqsUpTo(SummarySalesRowSet, MaxSalesRows)}

SummaryCostFiles ==
    {Workbook(AllCostCols, rows) :
        rows \in {<<>>, <<StdOnly(1, 2)>>}}

RankSalesRowSet == {SalesRow(c, 1, ns, 1, 1) : c \in 1..3, ns \in {0, 2}}

RankSalesFiles ==
    {Workbook(SalesRequiredCols, rows) :
        rows \in SeqsUpTo(RankSalesRowSet, MaxRankRows)}

RankCostFiles == {Workbook(AllCostCols, rows) : rows \in {<<>>, <<StdOnly(1, 1)>>}}

-----------------------------------------------------------------------------
(* The run. *)

InitWith(sales_files, cost_files, ns) ==
    /\ sales_file \in sales_files
    /\ cost_file \in cost_files
    /\ top_n \in ns
    /\ pc = "start"
    /\ sales_data = NoFrame
    /\ cost_data = NoFrame
    /\ errors = <<>>
    /\ infos = <<>>
    /\ exception = ""
    /\ merged_data = <<>>
    /\ view = 0
    /\ summary = <<>>
    /\ top_sales = <<>>
    /\ top_margin = <<>>
    /\ bottom_margin = <<>>
    /\ calls = <<>>

Init == InitWith(RunSalesFiles, RunCostFiles, {DefaultTopN})

InitMerge == InitWith(MergeSalesFiles, MergeCostFiles, {DefaultTopN})

InitSummary == InitWith(SummarySalesFiles, SummaryCostFiles, {DefaultTopN})

InitRank == InitWith(RankSalesFiles, RankCostFiles, 0..MaxTopN)

(* line 101 and the else branch of line 209 *)
Start ==
    /\ pc = "start"
    /\ IF BothUploaded(sales_file, cost_file)
       THEN pc' = "load_sales" /\ infos' = infos
       ELSE pc' = "done" /\ infos' = Append(infos, "Please upload both files")
    /\ UNCHANGED <<sales_file, cost_file, top_n, sales_data, cost_data, errors, exception,
                   merged_data, view, summary, top_sales, top_margin, bottom_margin, calls>>

(* line 102 *)
LoadSales ==
    /\ pc = "load_sales"
    /\ LET r == load_sales_data(sales_file)
       IN  sales_data' = r.frame /\ errors' = errors \o r.error
    /\ calls' = Append(calls, "load_sales_data")
    /\ pc' = "load_cost"
    /\ UNCHANGED <<sales_file, cost_file, top_n, cost_data, infos, exception,
                   merged_data, view, summary, top_sales, top_margin, bottom_margin>>

(* line 103 *)
LoadCost ==
    /\ pc = "load_cost"
    /\ LET r == load_cost_data(cost_file)
       IN  cost_data' = r.frame /\ errors' = errors \o r.error
    /\ calls' = Append(calls, "load_cost_data")
    /\ pc' = "check"
    /\ UNCHANGED <<sales_file, cost_file, top_n, sales_data, infos, exception,
                   merged_data, view, summary, top_sales, top_margin, bottom_margin>>

(* lines 105-109 *)
Check ==
    /\ pc = "check"
    /\ IF BothLoaded(sales_data, cost_data)
       THEN pc' = "merge" /\ infos' = infos \o RowWarnings(sales_data, cost_data)
       ELSE pc' = "done" /\ infos' = infos
    /\ UNCHANGED <<sales_file, cost_file, top_n, sales_data, cost_data, errors, exception,
                   merged_data, view, summary, top_sales, top_margin, bottom_margin, calls>>

(* line 175; an exception raised in merge_data ends the run *)
MergeData ==
    /\ pc = "merge"
    /\ calls' = Append(calls, "merge_data")
    /\ LET r == merge_data(sales_data, cost_data)
       IN  IF r.raised /= ""
           THEN exception' = r.raised /\ pc' = "failed" /\ UNCHANGED <<merged_data, view>>
           ELSE merged_data' = r.rows /\ view' = 1 /\ pc' = "summary"
                /\ UNCHANGED exception
    /\ UNCHANGED <<sales_file, cost_file, top_n, sales_data, cost_data, errors, infos,
                   summary, top_sales, top_margin, bottom_margin>>

(* line 184 (the chart, the table and the download of lines 185-196 read summary) *)
GenerateSummary ==
    /\ pc = "summary"
    /\ \E s \in generate_summary(merged_data, GroupFields[view]) : summary' = s
    /\ calls' = Append(calls, "generate_summary")
    /\ pc' = "rank_sales"
    /\ UNCHANGED <<sales_file, cost_file, top_n, sales_data, cost_data, errors, infos,
                   exception, merged_data, view, top_sales, top_margin, bottom_margin>>

(* line 198 *)
RankBySales ==
    /\ pc = "rank_sales"
    /\ \E tb \in get_top_bottom(summary, "Net Sales $", top_n) : top_sales' = tb[1]
    /\ calls' = Append(calls, "get_top_bottom")
    /\ pc' = "rank_margin"
    /\ UNCHANGED <<sales_file, cost_file, top_n, sales_data, cost_data, errors, infos,
                   exception, merged_data, view, summary, top_margin, bottom_margin>>

(* line 199, then the next iteration of the loop of line 177 *)
RankByMargin ==
    /\ pc = "rank_margin"
    /\ \E tb \in get_top_bottom(summary, "Margin %", top_n) :
            top_margin' = tb[1] /\ bottom_margin' = tb[2]
    /\ calls' = Append(calls, "get_top_bottom")
    /\ IF view < Len(GroupFields)
       THEN view' = view + 1 /\ pc' = "summary"
       ELSE view' = view /\ pc' = "done"
    /\ UNCHANGED <<sales_file, cost_file, top_n, sales_data, cost_data, errors, infos,
                   exception, merged_data, summary, top_sales>>

Next ==
    \/ Start
    \/ LoadSales
    \/ LoadCost
    \/ Check
    \/ MergeData
    \/ GenerateSummary
    \/ RankBySales
    \/ RankByMargin

Spec == Init /\ [][Next]_vars

SpecMerge == InitMerge /\ [][Next]_vars

SpecSummary == InitSummary /\ [][Next]_vars

SpecRank == InitRank /\ [][Next]_vars

-----------------------------------------------------------------------------
(* Properties of a run. *)

(* exact arithmetic on the finite floats, to state sums and equalities *)
FEqInt(x, v) == IsFinite(x) /\ x.num = v * x.den

FAdd(x, y) == Finite(x.num * y.den + y.num * x.den, x.den * y.den)

RECURSIVE FSum(_)
FSum(s) == IF s = <<>> THEN ToFloat(0) ELSE FAdd(s[1], FSum(Tail(s)))

Called(f) == \E i \in 1..Len(calls) : calls[i] = f

Merged == Called("merge_data") /\ exception = ""

Summarized == Called("generate_summary")

(* the view the current summary was computed for *)
SummaryField == GroupFields[IF pc = "summary" THEN view - 1 ELSE view]

TotalSales == SumSeq(Column(merged_data, "Net Sales $"))

TotalMargin == SumSeq(Column(merged_data, "Gross Margin $"))

SalesValid == sales_file.readable /\ SalesRequiredCols \subseteq sales_file.columns

CostValid == cost_file.readable /\ "Product ID" \in cost_file.columns

NonDecreasing(s) ==
    \A i \in 1..(Len(s) - 1) : IsFinite(s[i]) /\ IsFinite(s[i + 1]) /\ FLe(s[i], s[i + 1])

NonDecreasingWhereDefined(s) ==
    \A i \in 1..(Len(s) - 1) : (IsFinite(s[i]) /\ IsFinite(s[i + 1])) => FLe(s[i], s[i + 1])

FirstIndex(df, field, k) == CHOOSE i \in 1..Len(df) :
    df[i][field] = k /\ \A j \in 1..(i - 1) : df[j][field] /= k

(* descending, a missing (NaN) key after every other *)
DescendingBy(rows, field) ==
    \A i, j \in 1..Len(rows) :
        i < j =>
            LET x == KeyOf(rows[i], field)
                y == KeyOf(rows[j], field)
            IN  IsNaN(y) \/ (~IsNaN(x) /\ FLe(y, x))

TiesInKeyOrder ==
    \A i, j \in 1..Len(summary) :
        (i < j /\ summary[i]["Gross Margin $"] = summary[j]["Gross Margin $"]) =>
            summary[i][SummaryField] < summary[j][SummaryField]

RowsTakenFrom(slice, table) ==
    \E p \in Permutations(1..Len(table)) :
        /\ Len(slice) <= Len(table)
        /\ \A i \in 1..Len(slice) : slice[i] = table[p[i]]

TopSliceOk(slice, field, before, after) ==
    /\ after = before
    /\ Len(slice) = Min(top_n, Len(before))
    /\ DescendingBy(slice, field)
    /\ RowsTakenFrom(slice, before)

-----------------------------------------------------------------------------
(* C1: merge_data returns exactly one enriched row per transaction row, for *)
(* any cost set (duplicate Product IDs, unmatched Product IDs included):    *)
(* same number of rows, row i being transaction i.                          *)
C1_OneRowPerTransaction ==
    Merged =>
        /\ Len(merged_data) = Len(sales_data.rows)
        /\ \A i \in 1..Len(merged_data) :
              Project(merged_data[i], SalesRequiredCols) = sales_data.rows[i]

C3_MergeNeverRaises == exception = ""

(* C4: merge_data and generate_summary run only after load_sales_data and   *)
(* load_cost_data have both been called, and only in a run whose sales file *)
(* was readable with all five columns and whose cost file was readable with *)
(* Product ID; each invalid input has its own error reported.               *)
C4_ValidatedBeforeMerge ==
    /\ \A i \in 1..Len(calls) :
          calls[i] \in {"merge_data", "generate_summary"} =>
              /\ i > 2
              /\ calls[1] = "load_sales_data"
              /\ calls[2] = "load_cost_data"
              /\ SalesValid
              /\ CostValid
    /\ (pc \notin {"start", "load_sales", "load_cost"} /\ BothUploaded(sales_file, cost_file)) =>
          /\ Called("load_sales_data") /\ Called("load_cost_data")
          /\ ~SalesValid =>
                \E i \in 1..Len(errors) :
                    errors[i] \in {"Error reading Sales file",
                                   "Missing required columns in Sales Data"}
          /\ ~CostValid =>
                \E i \in 1..Len(errors) :
                    errors[i] \in {"Error reading Cost file",
                                   "Missing required columns in Cost Data"}

(* C4 witness: a finished run with both files invalid: both loaders ran,    *)
(* two errors were reported, nothing was merged.                            *)
C4_Witness ==
    /\ pc = "done"
    /\ ~SalesValid /\ ~CostValid
    /\ calls = <<"load_sales_data", "load_cost_data">>
    /\ Len(errors) = 2

(* C5: when total Net Sales $ is not 0, the '% of Sales' of the summary's   *)
(* rows sum to 100 and the rows' Net Sales $ sum to the total.              *)
C5_PctOfSalesSumsTo100 ==
    (Summarized /\ TotalSales /= 0) =>
        /\ FEqInt(FSum(Column(summary, "% of Sales")), 100)
        /\ SumSeq(Column(summary, "Net Sales $")) = TotalSales

(* C5 witness: a summary of two groups or more, one of them of several      *)
(* records, over a non-zero total.                                          *)
C5_Witness ==
    /\ Summarized /\ TotalSales /= 0
    /\ Len(summary) >= 2
    /\ Len(merged_data) > Len(summary)

C7_LastRowIs100 ==
    (Summarized /\ Len(summary) > 0) =>
        LET last == summary[Len(summary)]
        IN  /\ TotalSales /= 0 => FEqInt(last["Cumulative Sales %"], 100)
            /\ TotalMargin /= 0 => FEqInt(last["Cumulative Profit %"], 100)

(* C7 witness: a summary of two groups or more with both totals non-zero.   *)
C7_Witness ==
    /\ Summarized
    /\ Len(summary) >= 2
    /\ TotalSales /= 0 /\ TotalMargin /= 0
    /\ summary[1]["Gross Margin $"] /= 0 /\ summary[2]["Gross Margin $"] /= 0

C9_TopSlice ==
    [][ /\ (pc = "rank_sales" /\ pc' = "rank_margin") =>
              TopSliceOk(top_sales', "Net Sales $", summary, summary')
        /\ (pc = "rank_margin" /\ pc' /= "rank_margin") =>
              TopSliceOk(top_margin', "Margin %", summary, summary')
      ]_vars

(* C9 witness: a summary of more rows than n, n > 0, sliced by both fields, *)
(* the Margin % of one row undefined.                                       *)
C9_Witness ==
    /\ pc = "summary" /\ view = 2
    /\ top_n > 0
    /\ Len(summary) > top_n
    /\ Len(top_sales) = top_n /\ Len(top_margin) = top_n
    /\ \E i \in 1..Len(summary) : ~IsFinite(summary[i]["Margin %"])

(* C10: no percentage of a summary is an unchecked infinity or NaN: a zero  *)
(* denominator yields a defined value.                                      *)
C10_NoNonFinitePercent ==
    Summarized =>
        \A i \in 1..Len(summary) : \A col \in FloatCols : IsFinite(summary[i][col])

====
